---- MODULE Spec2Model ----
(***************************************************************************)
(* Model of reverse-ab-calc.py: the two bisection solvers calculate_mde    *)
(* and calculate_required_sample_size, the power curve, and the            *)
(* "Test Evaluation" branch of main().                                     *)
(*                                                                         *)
(* Python floats and numpy float64 values are modelled as binary floating  *)
(* point numbers m * 2^e with a Prec-bit significand, round-to-nearest-    *)
(* even, and the IEEE special values NaN and +/-inf.  The significand is   *)
(* narrower than binary64's 53 bits so that every intermediate product     *)
(* stays inside the model checker's integers; the operations, their        *)
(* special cases and their order are those of the source.                  *)
(***************************************************************************)
EXTENDS Integers, Sequences, FiniteSets, TLC

(***************************************************************************)
(* Floating point                                                          *)
(***************************************************************************)

\* width of the significand
Prec == 15

Pow2(k) == 2^k

F(m, e) == [k |-> "num", m |-> m, e |-> e]

Zero == F(0, 0)

NaN == [k |-> "nan", m |-> 0, e |-> 0]

Inf(s) == [k |-> "inf", m |-> s, e |-> 0]

IsZero(a) == a.k = "num" /\ a.m = 0

Mag(i) == IF i < 0 THEN -i ELSE i

Sgn(i) == IF i < 0 THEN -1 ELSE 1

RECURSIVE Bits(_)
Bits(v) == IF v < 2 THEN 1 ELSE 1 + Bits(v \div 2)

\* v / 2^k rounded to nearest, ties to even (k <= 0 shifts left, exactly)
RoundShift(v, k) ==
    IF k <= 0 THEN v * Pow2(-k)
    ELSE LET q == v \div Pow2(k)
             r == v % Pow2(k)
             h == Pow2(k - 1)
         IN  IF r > h \/ (r = h /\ q % 2 = 1) THEN q + 1 ELSE q

\* the float nearest to s * v * 2^e, for a sign s and a magnitude v >= 0
Normalize(s, v, e) ==
    IF v = 0 THEN Zero
    ELSE LET k == Bits(v) - Prec
             q == RoundShift(v, k)
         IN  IF q = Pow2(Prec) THEN F(s * Pow2(Prec - 1), e + k + 1)
                               ELSE F(s * q, e + k)

\* int -> float
FInt(n) == Normalize(Sgn(n), Mag(n), 0)

FNeg(a) == IF a.k = "nan" THEN NaN ELSE [a EXCEPT !.m = -a.m]

FAbs(a) == IF a.k = "nan" THEN NaN ELSE [a EXCEPT !.m = Mag(a.m)]

AddNum(a, b) ==
    IF a.m = 0 THEN b
    ELSE IF b.m = 0 THEN a
    ELSE LET hi == IF a.e >= b.e THEN a ELSE b
             lo == IF a.e >= b.e THEN b ELSE a
             d  == hi.e - lo.e
         IN  IF d > Prec THEN hi
             ELSE LET sum == hi.m * Pow2(d) + lo.m
                  IN  Normalize(Sgn(sum), Mag(sum), lo.e)

\* a + b
FAdd(a, b) ==
    IF a.k = "nan" \/ b.k = "nan" THEN NaN
    ELSE IF a.k = "inf" /\ b.k = "inf" THEN (IF a.m = b.m THEN a ELSE NaN)
    ELSE IF a.k = "inf" THEN a
    ELSE IF b.k = "inf" THEN b
    ELSE AddNum(a, b)

\* a - b
FSub(a, b) == FAdd(a, FNeg(b))

\* a * b
FMul(a, b) ==
    IF a.k = "nan" \/ b.k = "nan" THEN NaN
    ELSE IF a.k = "inf" \/ b.k = "inf"
         THEN (IF IsZero(a) \/ IsZero(b) THEN NaN ELSE Inf(Sgn(a.m) * Sgn(b.m)))
    ELSE Normalize(Sgn(a.m) * Sgn(b.m), Mag(a.m) * Mag(b.m), a.e + b.e)

DivNum(a, b) ==
    LET n   == Mag(a.m) * Pow2(Prec + 1)
        q   == n \div Mag(b.m)
        st  == IF n % Mag(b.m) = 0 THEN 0 ELSE 1
    IN  Normalize(Sgn(a.m) * Sgn(b.m), 2 * q + st, a.e - b.e - Prec - 2)

\* a / b with numpy's float64 semantics: x/0 is +/-inf, 0/0 is nan, no exception
FDiv(a, b) ==
    IF a.k = "nan" \/ b.k = "nan" THEN NaN
    ELSE IF a.k = "inf" THEN (IF b.k = "inf" THEN NaN ELSE Inf(a.m * Sgn(b.m)))
    ELSE IF b.k = "inf" THEN Zero
    ELSE IF b.m = 0 THEN (IF a.m = 0 THEN NaN ELSE Inf(Sgn(a.m)))
    ELSE IF a.m = 0 THEN Zero
    ELSE DivNum(a, b)

\* a < b ; every comparison with NaN is false
FLess(a, b) ==
    /\ a.k # "nan"
    /\ b.k # "nan"
    /\ LET d == FSub(a, b)
       IN  d.k # "nan" /\ d.m < 0

\* a <= b
FLeq(a, b) == a.k # "nan" /\ b.k # "nan" /\ ~FLess(b, a)

RECURSIVE ISqrt(_, _, _)
\* the largest s in lo..hi with s*s <= v
ISqrt(v, lo, hi) ==
    IF lo >= hi THEN lo
    ELSE LET mid == (lo + hi + 1) \div 2
         IN  IF mid * mid <= v THEN ISqrt(v, mid, hi) ELSE ISqrt(v, lo, mid - 1)

\* np.sqrt: nan for a negative argument
np_sqrt(a) ==
    IF a.k = "nan" THEN NaN
    ELSE IF a.k = "inf" THEN (IF a.m > 0 THEN a ELSE NaN)
    ELSE IF a.m < 0 THEN NaN
    ELSE IF a.m = 0 THEN Zero
    ELSE LET j == IF (a.e - (Prec - 1)) % 2 = 0 THEN Prec - 1 ELSE Prec
             v == a.m * Pow2(j)
             s == ISqrt(v, Pow2(Prec - 1), Pow2(Prec) - 1)
             r == IF v - s * s > s THEN s + 1 ELSE s
         IN  Normalize(1, r, (a.e - j) \div 2)

\* the decimal literal n/d
Dec(n, d) == FDiv(FInt(n), FInt(d))

One == FInt(1)

Two == FInt(2)

Hundred == FInt(100)

(***************************************************************************)
(* scipy.stats.norm                                                        *)
(***************************************************************************)

\* Phi(i/100) in millionths, i = 0..500
NormCdfTable == <<
    500000, 503989, 507978, 511966, 515953, 519939, 523922, 527903, 531881, 535856,
    539828, 543795, 547758, 551717, 555670, 559618, 563559, 567495, 571424, 575345,
    579260, 583166, 587064, 590954, 594835, 598706, 602568, 606420, 610261, 614092,
    617911, 621720, 625516, 629300, 633072, 636831, 640576, 644309, 648027, 651732,
    655422, 659097, 662757, 666402, 670031, 673645, 677242, 680822, 684386, 687933,
    691462, 694974, 698468, 701944, 705401, 708840, 712260, 715661, 719043, 722405,
    725747, 729069, 732371, 735653, 738914, 742154, 745373, 748571, 751748, 754903,
    758036, 761148, 764238, 767305, 770350, 773373, 776373, 779350, 782305, 785236,
    788145, 791030, 793892, 796731, 799546, 802337, 805105, 807850, 810570, 813267,
    815940, 818589, 821214, 823814, 826391, 828944, 831472, 833977, 836457, 838913,
    841345, 843752, 846136, 848495, 850830, 853141, 855428, 857690, 859929, 862143,
    864334, 866500, 868643, 870762, 872857, 874928, 876976, 879000, 881000, 882977,
    884930, 886861, 888768, 890651, 892512, 894350, 896165, 897958, 899727, 901475,
    903200, 904902, 906582, 908241, 909877, 911492, 913085, 914657, 916207, 917736,
    919243, 920730, 922196, 923641, 925066, 926471, 927855, 929219, 930563, 931888,
    933193, 934478, 935745, 936992, 938220, 939429, 940620, 941792, 942947, 944083,
    945201, 946301, 947384, 948449, 949497, 950529, 951543, 952540, 953521, 954486,
    955435, 956367, 957284, 958185, 959070, 959941, 960796, 961636, 962462, 963273,
    964070, 964852, 965620, 966375, 967116, 967843, 968557, 969258, 969946, 970621,
    971283, 971933, 972571, 973197, 973810, 974412, 975002, 975581, 976148, 976705,
    977250, 977784, 978308, 978822, 979325, 979818, 980301, 980774, 981237, 981691,
    982136, 982571, 982997, 983414, 983823, 984222, 984614, 984997, 985371, 985738,
    986097, 986447, 986791, 987126, 987455, 987776, 988089, 988396, 988696, 988989,
    989276, 989556, 989830, 990097, 990358, 990613, 990863, 991106, 991344, 991576,
    991802, 992024, 992240, 992451, 992656, 992857, 993053, 993244, 993431, 993613,
    993790, 993963, 994132, 994297, 994457, 994614, 994766, 994915, 995060, 995201,
    995339, 995473, 995604, 995731, 995855, 995975, 996093, 996207, 996319, 996427,
    996533, 996636, 996736, 996833, 996928, 997020, 997110, 997197, 997282, 997365,
    997445, 997523, 997599, 997673, 997744, 997814, 997882, 997948, 998012, 998074,
    998134, 998193, 998250, 998305, 998359, 998411, 998462, 998511, 998559, 998605,
    998650, 998694, 998736, 998777, 998817, 998856, 998893, 998930, 998965, 998999,
    999032, 999065, 999096, 999126, 999155, 999184, 999211, 999238, 999264, 999289,
    999313, 999336, 999359, 999381, 999402, 999423, 999443, 999462, 999481, 999499,
    999517, 999534, 999550, 999566, 999581, 999596, 999610, 999624, 999638, 999651,
    999663, 999675, 999687, 999698, 999709, 999720, 999730, 999740, 999749, 999758,
    999767, 999776, 999784, 999792, 999800, 999807, 999815, 999822, 999828, 999835,
    999841, 999847, 999853, 999858, 999864, 999869, 999874, 999879, 999883, 999888,
    999892, 999896, 999900, 999904, 999908, 999912, 999915, 999918, 999922, 999925,
    999928, 999931, 999933, 999936, 999938, 999941, 999943, 999946, 999948, 999950,
    999952, 999954, 999956, 999958, 999959, 999961, 999963, 999964, 999966, 999967,
    999968, 999970, 999971, 999972, 999973, 999974, 999975, 999976, 999977, 999978,
    999979, 999980, 999981, 999982, 999983, 999983, 999984, 999985, 999985, 999986,
    999987, 999987, 999988, 999988, 999989, 999989, 999990, 999990, 999991, 999991,
    999991, 999992, 999992, 999993, 999993, 999993, 999993, 999994, 999994, 999994,
    999995, 999995, 999995, 999995, 999996, 999996, 999996, 999996, 999996, 999996,
    999997, 999997, 999997, 999997, 999997, 999997, 999997, 999998, 999998, 999998,
    999998, 999998, 999998, 999998, 999998, 999998, 999998, 999998, 999999, 999999,
    999999, 999999, 999999, 999999, 999999, 999999, 999999, 999999, 999999, 999999,
    999999, 999999, 999999, 999999, 999999, 999999, 999999, 999999, 999999, 999999,
    1000000, 1000000, 1000000, 1000000, 1000000, 1000000, 1000000, 1000000, 1000000, 1000000,
    1000000
>>

Million == 1000 * 1000

\* floor(|a| * 10^6) for a finite a, capped at 5 * 10^6
ToMicro(a) ==
    IF a.m = 0 THEN 0
    ELSE IF a.e + Prec > 3 THEN 5 * Million
    ELSE IF -(a.e + 6) > 30 THEN 0
    ELSE (Mag(a.m) * 15625) \div Pow2(-(a.e + 6))

\* Phi(u / 10^6) in millionths, by linear interpolation in the table
CdfMicro(u) ==
    IF u >= 5 * Million THEN Million
    ELSE LET i  == u \div 10000
             fr == u % 10000
             t0 == NormCdfTable[i + 1]
             t1 == NormCdfTable[i + 2]
         IN  t0 + ((t1 - t0) * fr) \div 10000

\* stats.norm.cdf
norm_cdf(x) ==
    IF x.k = "nan" THEN NaN
    ELSE IF x.k = "inf" THEN (IF x.m > 0 THEN One ELSE Zero)
    ELSE LET c == CdfMicro(ToMicro(x))
         IN  IF x.m >= 0 THEN Dec(c, Million) ELSE Dec(Million - c, Million)

RECURSIVE PpfIndex(_, _, _)
\* the largest i in lo..hi with NormCdfTable[i] <= u
PpfIndex(u, lo, hi) ==
    IF lo >= hi THEN lo
    ELSE LET mid == (lo + hi + 1) \div 2
         IN  IF NormCdfTable[mid] <= u THEN PpfIndex(u, mid, hi)
                                       ELSE PpfIndex(u, lo, mid - 1)

\* the z >= 0, in millionths, with Phi(z) = u / 10^6, for u >= 500000
PpfMicro(u) ==
    LET i  == PpfIndex(u, 1, 500)
        t0 == NormCdfTable[i]
        t1 == NormCdfTable[i + 1]
    IN  IF t1 <= t0 THEN (i - 1) * 10000
        ELSE (i - 1) * 10000 + ((u - t0) * 10000) \div (t1 - t0)

\* stats.norm.ppf
norm_ppf(q) ==
    IF q.k # "num" THEN NaN
    ELSE IF q.m < 0 \/ FLess(One, q) THEN NaN
    ELSE IF q.m = 0 THEN Inf(-1)
    ELSE IF q = One THEN Inf(1)
    ELSE LET u == ToMicro(q)
         IN  IF u >= 500000 THEN Dec(PpfMicro(u), Million)
                            ELSE FNeg(Dec(PpfMicro(Million - u), Million))

(***************************************************************************)
(* calculate_mde                                                           *)
(***************************************************************************)

\* actual_power_mde with the signed difference in the z-score
actual_power_mde_signed(sample_size_, baseline_rate_, significance_level, effect_size) ==
    LET alternative_rate == FMul(baseline_rate_, FAdd(One, effect_size))
        p1 == baseline_rate_
        p2 == alternative_rate
        se == np_sqrt(FDiv(FAdd(FMul(p1, FSub(One, p1)), FMul(p2, FSub(One, p2))),
                           FInt(sample_size_)))
        z_score_ == FDiv(FSub(p2, p1), se)
        critical_value_ == norm_ppf(FSub(One, FDiv(significance_level, Two)))
    IN  FSub(One, norm_cdf(FSub(critical_value_, z_score_)))

\* achieved power of the two-proportion z-test, as power_analysis computes it
\* inside calculate_mde and as the power curve recomputes it
actual_power_mde(sample_size_, baseline_rate_, significance_level, effect_size) ==
    LET alternative_rate == FMul(baseline_rate_, FAdd(One, effect_size))
        p1 == baseline_rate_
        p2 == alternative_rate
        se == np_sqrt(FDiv(FAdd(FMul(p1, FSub(One, p1)), FMul(p2, FSub(One, p2))),
                           FInt(sample_size_)))
        z_score_ == FDiv(FAbs(FSub(p2, p1)), se)
        critical_value_ == norm_ppf(FSub(One, FDiv(significance_level, Two)))
    IN  FSub(One, norm_cdf(FSub(critical_value_, z_score_)))

\* power_analysis_mde with the critical value of a one-sided test
power_analysis_mde_one_sided(sample_size_, baseline_rate_, power_, significance_level, effect_size) ==
    LET alternative_rate == FMul(baseline_rate_, FAdd(One, effect_size))
        p1 == baseline_rate_
        p2 == alternative_rate
        se == np_sqrt(FDiv(FAdd(FMul(p1, FSub(One, p1)), FMul(p2, FSub(One, p2))),
                           FInt(sample_size_)))
        z_score_ == FDiv(FAbs(FSub(p2, p1)), se)
        critical_value_ == norm_ppf(FSub(One, significance_level))
    IN  FSub(FSub(One, norm_cdf(FSub(critical_value_, z_score_))), power_)

\* calculate_mde.power_analysis: achieved power minus the target
power_analysis_mde(sample_size_, baseline_rate_, power_, significance_level, effect_size) ==
    FSub(actual_power_mde(sample_size_, baseline_rate_, significance_level, effect_size),
         power_)

\* The effect bracket is kept exactly, in units of 1/EffectScale: 0.0001 is
\* EffectTol units, and every midpoint the loop forms is a whole number of units.
EffectTol == Pow2(15)

EffectScale == 10000 * EffectTol

\* the float of an effect given in units
EffectOf(x) == FDiv(FInt(x), FInt(EffectScale))

MdeLeft0 == EffectTol

MdeRight0 == EffectScale

(***************************************************************************)
(* calculate_required_sample_size                                          *)
(***************************************************************************)

\* achieved power as calculate_required_sample_size.power_analysis computes it
actual_power_n(mde_, baseline_rate_, significance_level, n) ==
    LET alternative_rate == FMul(baseline_rate_, FAdd(One, mde_))
        p1 == baseline_rate_
        p2 == alternative_rate
        se == np_sqrt(FDiv(FAdd(FMul(p1, FSub(One, p1)), FMul(p2, FSub(One, p2))),
                           FInt(n)))
        z_score_ == FDiv(FSub(p2, p1), se)
        critical_value_ == norm_ppf(FSub(One, FDiv(significance_level, Two)))
    IN  FSub(One, norm_cdf(FSub(critical_value_, z_score_)))

\* calculate_required_sample_size.power_analysis
power_analysis_n(mde_, baseline_rate_, power_, significance_level, n) ==
    FSub(actual_power_n(mde_, baseline_rate_, significance_level, n), power_)

SsLeft0 == 100

SsRight0 == 10000000

\* half the tolerance of the sample-size loop
SsTol_half == 100 \div 2

SsTol == 100

(***************************************************************************)
(* Test Evaluation                                                         *)
(***************************************************************************)

\* conv / traffic
cvr_of(conv, traffic) == FDiv(FInt(conv), FInt(traffic))

\* ((cvr_variant - cvr_control) / cvr_control * 100) if cvr_control != 0 else 0
uplift_of(cvr_c, cvr_v) ==
    IF ~IsZero(cvr_c) THEN FMul(FDiv(FSub(cvr_v, cvr_c), cvr_c), Hundred) ELSE Zero

\* np.sqrt(cvr * (1 - cvr) / traffic)
se_of(cvr, traffic) == np_sqrt(FDiv(FMul(cvr, FSub(One, cvr)), FInt(traffic)))

\* se_diff_of adding the standard errors instead of their squares
se_diff_sum(se_c, se_v) == FAdd(se_c, se_v)

\* np.sqrt(se_control**2 + se_variant**2)
se_diff_of(se_c, se_v) == np_sqrt(FAdd(FMul(se_c, se_c), FMul(se_v, se_v)))

\* z_score_of with the magnitude of the difference
z_score_abs(cvr_c, cvr_v, sd) ==
    IF ~IsZero(sd) THEN FDiv(FAbs(FSub(cvr_v, cvr_c)), sd) ELSE Zero

\* z_score_of without the guard on se_diff
z_score_unguarded(cvr_c, cvr_v, sd) == FDiv(FSub(cvr_v, cvr_c), sd)

\* (cvr_variant - cvr_control) / se_diff if se_diff != 0 else 0
z_score_of(cvr_c, cvr_v, sd) ==
    IF ~IsZero(sd) THEN FDiv(FSub(cvr_v, cvr_c), sd) ELSE Zero

\* p_value_of whose one-tailed p-value is the upper tail of z for either sign
p_value_upper_tail(test_type_, z) ==
    IF test_type_ = "Two-Tailed"
    THEN FMul(Two, FSub(One, norm_cdf(FAbs(z))))
    ELSE FSub(One, norm_cdf(z))

\* the p-value of either test type
p_value_of(test_type_, z) ==
    IF test_type_ = "Two-Tailed"
    THEN FMul(Two, FSub(One, norm_cdf(FAbs(z))))
    ELSE IF FLeq(Zero, z) THEN FSub(One, norm_cdf(z))
                          ELSE norm_cdf(z)

\* the critical value of either test type
critical_value_of(test_type_, significance_) ==
    IF test_type_ = "Two-Tailed"
    THEN norm_ppf(FSub(One, FDiv(significance_, Two)))
    ELSE norm_ppf(FSub(One, significance_))

\* observed_power_of with the signed z-score
observed_power_signed(crit, z) == FSub(One, norm_cdf(FSub(crit, z)))

\* 1 - stats.norm.cdf(critical_value - abs(z_score))
observed_power_of(crit, z) == FSub(One, norm_cdf(FSub(crit, FAbs(z))))

\* the z-score the evaluation computes from the four counts
ZScore(tc, cc, tv, cv) ==
    LET c == cvr_of(cc, tc)
        v == cvr_of(cv, tv)
    IN  z_score_of(c, v, se_diff_of(se_of(c, tc), se_of(v, tv)))

(***************************************************************************)
(* Inputs                                                                  *)
(***************************************************************************)

\* "Sample Size (per variation)": min_value 100, no maximum
SampleSizes == {100, 10000, 20000000}

\* min_value of "Sample Size (per variation)"
MinSampleSize == 100

\* "Total Population Size": min_value 200
TotalPopulations == {200, 20000}

\* "Number of Variants": 2..10
MinVariants == 2

MaxVariantsTried == 3

\* "Baseline Conversion Rate (%)" in hundredths of a percent: 0.01 .. 99.99
BaselineHundredths == {1, 100, 3000, 5000, 9000, 9999}

\* the power slider, in hundredths: 0.50 .. 0.99
PowerHundredths == {80, 99}

\* the alpha slider, in hundredths: 0.01 .. 0.10
AlphaHundredths == {1, 5}

\* "Or set desired MDE (%)" in tenths of a percent: 0.1 .. 100.0
UserMdeTenths == {1, 1000}

\* effects, in percent, at which the power curve is evaluated
CurveEffectPercents == {-150, -100, -31, -30, -10, 10, 30, 31, 100, 150}

\* traffic and conversion counts tried
MaxTraffic == 3

MaxConversions == 4

\* larger observations tried: <<traffic_control, conv_control, traffic_variant,
\* conv_variant>>
LargeObservations ==
    {<<1000, 300, 1000, 350>>, <<1000, 350, 1000, 300>>,
     <<1000, 300, 1000, 335>>, <<1000, 335, 1000, 300>>,
     <<1000, 300, 1000, 340>>, <<1000, 340, 1000, 300>>}

\* "Select Confidence Level": 90%, 95%, 99%
ConfidencePercents == {90, 95, 99}

None == [k |-> "none", m |-> 0, e |-> 0]

VARIABLES
    analysis_type, pc, error,
    mode, total_population, num_variants, sample_size,
    baseline_rate, power, significance,
    left, right, mde_iterations, mde,
    user_mde, n_left, n_right, n_iterations, required_sample_size,
    curve_effect, curve_power,
    traffic_control, conv_control, traffic_variant, conv_variant,
    test_type, confidence,
    cvr_control, cvr_variant, uplift, se_control, se_variant, se_diff,
    z_score, p_value, critical_value, observed_power, significant, result_box

inputs_pre == <<mode, total_population, num_variants, baseline_rate, power>>

solver_mde == <<left, right, mde_iterations, mde>>

solver_n == <<user_mde, n_left, n_right, n_iterations, required_sample_size>>

curve == <<curve_effect, curve_power>>

inputs_eval == <<traffic_control, conv_control, traffic_variant, conv_variant,
                 test_type, confidence>>

results_eval == <<cvr_control, cvr_variant, uplift, se_control, se_variant, se_diff,
                  z_score, p_value, critical_value, observed_power, significant,
                  result_box>>

vars == <<analysis_type, pc, error, sample_size, significance,
          inputs_pre, solver_mde, solver_n, curve, inputs_eval, results_eval>>

NoPreTest ==
    /\ mode = "none" /\ total_population = 0 /\ num_variants = 0 /\ sample_size = 0
    /\ baseline_rate = None /\ power = None

NoSolvers ==
    /\ left = 0 /\ right = 0 /\ mde_iterations = 0 /\ mde = None
    /\ user_mde = None /\ n_left = 0 /\ n_right = 0 /\ n_iterations = 0
    /\ required_sample_size = 0
    /\ curve_effect = None /\ curve_power = None

NoEvalInputs ==
    /\ traffic_control = 0 /\ conv_control = 0
    /\ traffic_variant = 0 /\ conv_variant = 0
    /\ test_type = "none" /\ confidence = None

NoEvalResults ==
    /\ cvr_control = None /\ cvr_variant = None /\ uplift = None
    /\ se_control = None /\ se_variant = None /\ se_diff = None
    /\ z_score = None /\ p_value = None /\ critical_value = None
    /\ observed_power = None /\ significant = FALSE /\ result_box = "none"

\* main() up to the widgets of "Pre-Test Analysis"
InitPreTest ==
    /\ analysis_type = "Pre-Test Analysis"
    /\ pc = "sample_size"
    /\ \/ /\ mode = "Calculate from sample size"
          /\ sample_size \in SampleSizes
          /\ total_population = 0
          /\ num_variants = 0
       \/ /\ mode = "Calculate from total population"
          /\ sample_size = 0
          /\ total_population \in TotalPopulations
          /\ num_variants \in MinVariants..MaxVariantsTried
    /\ \E k \in BaselineHundredths : baseline_rate = FDiv(Dec(k, 100), Hundred)
    /\ \E k \in PowerHundredths : power = Dec(k, 100)
    /\ \E k \in AlphaHundredths : significance = Dec(k, 100)
    /\ NoSolvers /\ NoEvalInputs /\ NoEvalResults

\* main() up to the widgets of "Test Evaluation"
InitEvaluation ==
    /\ analysis_type = "Test Evaluation"
    /\ pc = "evaluate"
    /\ \/ /\ traffic_control \in 1..MaxTraffic
          /\ conv_control \in 0..MaxConversions
          /\ traffic_variant \in 1..MaxTraffic
          /\ conv_variant \in 0..MaxConversions
       \/ \E o \in LargeObservations :
             /\ traffic_control = o[1] /\ conv_control = o[2]
             /\ traffic_variant = o[3] /\ conv_variant = o[4]
    /\ test_type \in {"One-Tailed", "Two-Tailed"}
    /\ \E k \in ConfidencePercents :
          /\ confidence = FDiv(FInt(k), Hundred)
          /\ significance = FSub(One, FDiv(FInt(k), Hundred))
    /\ NoPreTest /\ NoSolvers /\ NoEvalResults

Init ==
    /\ error = "none"
    /\ (InitPreTest \/ InitEvaluation)

\* sample_size as each calculator mode obtains it, and the first lines of calculate_mde
EnterMde ==
    /\ pc = "sample_size"
    /\ sample_size' = IF mode = "Calculate from sample size"
                      THEN sample_size
                      ELSE total_population \div num_variants
    /\ left' = MdeLeft0
    /\ right' = MdeRight0
    /\ mde_iterations' = 0
    /\ pc' = "mde_loop"
    /\ UNCHANGED <<analysis_type, error, significance, inputs_pre, mde, solver_n,
                   curve, inputs_eval, results_eval>>

\* MdeStep cutting the bracket at its first quarter instead of its middle
MdeStep_quarter ==
    /\ pc = "mde_loop"
    /\ right - left > EffectTol
    /\ LET mid == left + (right - left) \div 4
       IN  IF FLess(power_analysis_mde(sample_size, baseline_rate, power,
                                       significance, EffectOf(mid)), Zero)
           THEN left' = mid /\ right' = right
           ELSE right' = mid /\ left' = left
    /\ mde_iterations' = mde_iterations + 1
    /\ UNCHANGED <<analysis_type, pc, error, sample_size, significance, inputs_pre,
                   mde, solver_n, curve, inputs_eval, results_eval>>

\* one iteration of calculate_mde's while loop
MdeStep ==
    /\ pc = "mde_loop"
    /\ right - left > EffectTol
    /\ LET mid == (left + right) \div 2
       IN  IF FLess(power_analysis_mde(sample_size, baseline_rate, power,
                                       significance, EffectOf(mid)), Zero)
           THEN left' = mid /\ right' = right
           ELSE right' = mid /\ left' = left
    /\ mde_iterations' = mde_iterations + 1
    /\ UNCHANGED <<analysis_type, pc, error, sample_size, significance, inputs_pre,
                   mde, solver_n, curve, inputs_eval, results_eval>>

\* return (left + right) / 2
MdeReturn ==
    /\ pc = "mde_loop"
    /\ ~(right - left > EffectTol)
    /\ mde' = EffectOf((left + right) \div 2)
    /\ pc' = "user_mde"
    /\ UNCHANGED <<analysis_type, error, sample_size, significance, inputs_pre,
                   left, right, mde_iterations, solver_n, curve, inputs_eval,
                   results_eval>>

\* the "desired MDE" widget (its default is mde*100) and the first lines of
\* calculate_required_sample_size
EnterSampleSize ==
    /\ pc = "user_mde"
    /\ \/ user_mde' = FDiv(FMul(mde, Hundred), Hundred)
       \/ \E k \in UserMdeTenths : user_mde' = FDiv(Dec(k, 10), Hundred)
    /\ n_left' = SsLeft0
    /\ n_right' = SsRight0
    /\ n_iterations' = 0
    /\ pc' = "n_loop"
    /\ UNCHANGED <<analysis_type, error, sample_size, significance, inputs_pre,
                   solver_mde, required_sample_size, curve, inputs_eval, results_eval>>

\* one iteration of calculate_required_sample_size's while loop
SampleSizeStep ==
    /\ pc = "n_loop"
    /\ n_right - n_left > SsTol
    /\ LET mid == (n_left + n_right) \div 2
       IN  IF FLess(power_analysis_n(user_mde, baseline_rate, power, significance, mid),
                    Zero)
           THEN n_left' = mid /\ n_right' = n_right
           ELSE n_right' = mid /\ n_left' = n_left
    /\ n_iterations' = n_iterations + 1
    /\ UNCHANGED <<analysis_type, pc, error, sample_size, significance, inputs_pre,
                   solver_mde, user_mde, required_sample_size, curve, inputs_eval,
                   results_eval>>

\* SampleSizeReturn returning the lower end of the bracket
SampleSizeReturn_left ==
    /\ pc = "n_loop"
    /\ ~(n_right - n_left > SsTol)
    /\ required_sample_size' = n_left
    /\ pc' = "curve"
    /\ UNCHANGED <<analysis_type, error, sample_size, significance, inputs_pre,
                   solver_mde, user_mde, n_left, n_right, n_iterations, curve,
                   inputs_eval, results_eval>>

\* return right
SampleSizeReturn ==
    /\ pc = "n_loop"
    /\ ~(n_right - n_left > SsTol)
    /\ required_sample_size' = n_right
    /\ pc' = "curve"
    /\ UNCHANGED <<analysis_type, error, sample_size, significance, inputs_pre,
                   solver_mde, user_mde, n_left, n_right, n_iterations, curve,
                   inputs_eval, results_eval>>

\* max(mde * 3, user_mde * 3) if abs(user_mde - mde) > 0.0001 else mde * 3
max_effect ==
    LET m3 == FMul(mde, FInt(3))
        u3 == FMul(user_mde, FInt(3))
    IN  IF FLess(Dec(1, 10000), FAbs(FSub(user_mde, mde)))
        THEN (IF FLess(m3, u3) THEN u3 ELSE m3)
        ELSE m3

\* one point of the power curve: an effect between -max_effect and max_effect
PowerCurvePoint ==
    /\ pc = "curve"
    /\ \E k \in CurveEffectPercents :
          LET effect == Dec(k, 100)
          IN  /\ FLeq(FAbs(effect), max_effect)
              /\ curve_effect' = effect
              /\ curve_power' = actual_power_mde(sample_size, baseline_rate,
                                                 significance, effect)
    /\ pc' = "plotted"
    /\ UNCHANGED <<analysis_type, error, sample_size, significance, inputs_pre,
                   solver_mde, solver_n, inputs_eval, results_eval>>

\* conversion rates and uplift
EvalRates ==
    /\ pc = "evaluate"
    /\ traffic_control > 0 /\ traffic_variant > 0
    /\ cvr_control' = cvr_of(conv_control, traffic_control)
    /\ cvr_variant' = cvr_of(conv_variant, traffic_variant)
    /\ uplift' = uplift_of(cvr_of(conv_control, traffic_control),
                           cvr_of(conv_variant, traffic_variant))
    /\ pc' = "standard_errors"
    /\ UNCHANGED <<analysis_type, error, sample_size, significance, inputs_pre,
                   solver_mde, solver_n, curve, inputs_eval, se_control, se_variant,
                   se_diff, z_score, p_value, critical_value, observed_power,
                   significant, result_box>>

\* standard errors
EvalStandardErrors ==
    /\ pc = "standard_errors"
    /\ se_control' = se_of(cvr_control, traffic_control)
    /\ se_variant' = se_of(cvr_variant, traffic_variant)
    /\ se_diff' = se_diff_of(se_of(cvr_control, traffic_control),
                             se_of(cvr_variant, traffic_variant))
    /\ pc' = "z_score"
    /\ UNCHANGED <<analysis_type, error, sample_size, significance, inputs_pre,
                   solver_mde, solver_n, curve, inputs_eval, cvr_control, cvr_variant,
                   uplift, z_score, p_value, critical_value, observed_power,
                   significant, result_box>>

\* z-score
EvalZScore ==
    /\ pc = "z_score"
    /\ z_score' = z_score_of(cvr_control, cvr_variant, se_diff)
    /\ pc' = "p_value"
    /\ UNCHANGED <<analysis_type, error, sample_size, significance, inputs_pre,
                   solver_mde, solver_n, curve, inputs_eval, cvr_control, cvr_variant,
                   uplift, se_control, se_variant, se_diff, p_value, critical_value,
                   observed_power, significant, result_box>>

\* p-value, critical value, observed power and the verdict
EvalPValue ==
    /\ pc = "p_value"
    /\ p_value' = p_value_of(test_type, z_score)
    /\ critical_value' = critical_value_of(test_type, significance)
    /\ observed_power' = observed_power_of(critical_value_of(test_type, significance),
                                           z_score)
    /\ significant' = FLess(p_value_of(test_type, z_score), significance)
    /\ pc' = "message"
    /\ UNCHANGED <<analysis_type, error, sample_size, significance, inputs_pre,
                   solver_mde, solver_n, curve, inputs_eval, cvr_control, cvr_variant,
                   uplift, se_control, se_variant, se_diff, z_score, result_box>>

\* result_message: both branches format (cvr_variant - cvr_control)/cvr_control*100,
\* a division of Python floats, which raises when cvr_control is 0.0
EvalMessage ==
    /\ pc = "message"
    /\ IF IsZero(cvr_control)
       THEN /\ error' = "ZeroDivisionError"
            /\ pc' = "raised"
            /\ result_box' = result_box
       ELSE /\ error' = error
            /\ pc' = "rendered"
            /\ result_box' = IF significant THEN "success" ELSE "warning"
    /\ UNCHANGED <<analysis_type, sample_size, significance, inputs_pre,
                   solver_mde, solver_n, curve, inputs_eval, cvr_control, cvr_variant,
                   uplift, se_control, se_variant, se_diff, z_score, p_value,
                   critical_value, observed_power, significant>>

Next ==
    \/ EnterMde
    \/ MdeStep
    \/ MdeReturn
    \/ EnterSampleSize
    \/ SampleSizeStep
    \/ SampleSizeReturn
    \/ PowerCurvePoint
    \/ EvalRates
    \/ EvalStandardErrors
    \/ EvalZScore
    \/ EvalPValue
    \/ EvalMessage

Spec == Init /\ [][Next]_vars

(***************************************************************************)
(* Properties                                                              *)
(***************************************************************************)

SampleSizeDone == pc \in {"curve", "plotted"}

MdeDone == pc \in {"user_mde", "n_loop", "curve", "plotted"}

ZScoreDone == pc \in {"p_value", "message", "rendered", "raised"}

PValueDone == pc \in {"message", "rendered", "raised"}

\* achieved power of the sample-size solver's own formula at n
PowerAtN(n) == actual_power_n(user_mde, baseline_rate, significance, n)

\* achieved power of the MDE solver's own formula at an effect given in units
PowerAtEffect(x) ==
    actual_power_mde(sample_size, baseline_rate, significance, EffectOf(x))

\* C1: the n returned by calculate_required_sample_size has achieved power >=
\* the target power, also when n = 10,000,000 does not reach the target.
C1_ReturnedSizeMeetsTarget ==
    SampleSizeDone => FLeq(power, PowerAtN(required_sample_size))

\* C2: the sample-size solver reports OutOfRange whenever the power at
\* n = 10,000,000 is below the target and whenever the power at n = 100 already
\* meets the target.
C2_OutOfRangeReported ==
    (SampleSizeDone /\ (FLess(PowerAtN(SsRight0), power) \/ FLeq(power, PowerAtN(SsLeft0))))
        => error = "OutOfRange"

\* the initial effect bracket does not bound a crossing of the target power
MdeBracketFails ==
    FLeq(power, PowerAtEffect(MdeLeft0)) \/ FLess(PowerAtEffect(MdeRight0), power)

\* C3: when the bracket [1e-4, 1.0] does not bound a crossing of the target
\* power, calculate_mde returns the nearest bracket boundary and flags
\* DidNotConverge.
C3_NonConvergenceFlagged ==
    (MdeDone /\ MdeBracketFails)
        => /\ error = "DidNotConverge"
           /\ mde \in {EffectOf(MdeLeft0), EffectOf(MdeRight0)}

\* the alternative rate baseline_rate * (1 + effect) leaves (0,1) at the upper
\* end of the bracket, effect = 1.0
AlternativeRateLeavesUnit ==
    FLeq(One, FMul(baseline_rate, FAdd(One, EffectOf(MdeRight0))))

\* C4: calculate_mde rejects with InvalidParameter, before the bisection starts
\* and without returning an effect size, every baseline rate whose alternative
\* rate leaves (0,1) inside the bracket (0.9999 among them).
C4_InvalidBaselineRejected ==
    (analysis_type = "Pre-Test Analysis" /\ pc # "sample_size"
        /\ AlternativeRateLeavesUnit)
        => /\ error = "InvalidParameter"
           /\ mde = None

\* the power curve's formula at an effect given in percent
CurvePowerAt(k) ==
    actual_power_mde(sample_size, baseline_rate, significance, Dec(k, 100))

\* the alternative rate of an effect lies in [0,1]
RateInUnit(effect) ==
    LET p2 == FMul(baseline_rate, FAdd(One, effect))
    IN  FLeq(Zero, p2) /\ FLeq(p2, One)

SameSign(a, b) == (a.m < 0) = (b.m < 0)

\* C5 as stated: for effects e1, e2 of either sign with |e1| < |e2|,
\* power(e1) <= power(e2).
C5_MonotoneEitherSign ==
    pc = "plotted" =>
        \A k \in CurveEffectPercents :
            FLess(FAbs(curve_effect), FAbs(Dec(k, 100)))
                => FLeq(curve_power, CurvePowerAt(k))

\* C5 amended: for effects e1, e2 of the same sign with |e1| < |e2| whose
\* alternative rates lie in [0,1], power(e1) <= power(e2).
C5_MonotoneSameSign ==
    pc = "plotted" =>
        \A k \in CurveEffectPercents :
            (/\ FLess(FAbs(curve_effect), FAbs(Dec(k, 100)))
             /\ SameSign(curve_effect, Dec(k, 100))
             /\ RateInUnit(curve_effect)
             /\ RateInUnit(Dec(k, 100)))
                => FLeq(curve_power, CurvePowerAt(k))

\* a negative effect whose power is strictly below that of a larger negative one
C5_Witness ==
    /\ pc = "plotted"
    /\ curve_effect.m < 0
    /\ \E k \in CurveEffectPercents :
          /\ FLess(FAbs(curve_effect), FAbs(Dec(k, 100)))
          /\ SameSign(curve_effect, Dec(k, 100))
          /\ RateInUnit(curve_effect)
          /\ RateInUnit(Dec(k, 100))
          /\ FLess(curve_power, CurvePowerAt(k))

\* the sample-size solver was given the MDE solver's result (the widget's default)
RoundTrip == SampleSizeDone /\ user_mde = FDiv(FMul(mde, Hundred), Hundred)

\* the MDE solver's bracket bounds a crossing of the target power
MdeBracketed ==
    FLess(PowerAtEffect(MdeLeft0), power) /\ FLeq(power, PowerAtEffect(MdeRight0))

\* what the two tolerances allow n' to exceed n by: 100 samples, and the change of
\* n under a change of the effect by 0.0001 (to first order 2 * 0.0001 / mde of n,
\* taken twice over)
RoundTripSlack ==
    FAdd(FInt(SsTol),
         FMul(FInt(sample_size), FDiv(FMul(FInt(4), Dec(1, 10000)), mde)))

RoundTripEpsilon == Dec(1, 100)

\* C6: for a valid n (>= 100), with MDE = calculate_mde(n, ...) properly bracketed and
\* n' = calculate_required_sample_size(MDE, ...): n' <= n + slack and the power
\* achieved at (n', MDE) is >= power - epsilon.
C6_RoundTrip ==
    (RoundTrip /\ MdeBracketed /\ sample_size >= MinSampleSize)
        => /\ FLeq(FInt(required_sample_size), FAdd(FInt(sample_size), RoundTripSlack))
           /\ FLeq(FSub(power, RoundTripEpsilon), PowerAtN(required_sample_size))

ValidObservations ==
    conv_control <= traffic_control /\ conv_variant <= traffic_variant

\* the z-score of the observations with control and variant swapped
SwappedZScore == ZScore(traffic_variant, conv_variant, traffic_control, conv_control)

\* C7: in a two-tailed evaluation of valid observations, swapping control and
\* variant negates the z-score and leaves the p-value and the verdict unchanged.
C7_TwoTailedSwap ==
    (test_type = "Two-Tailed" /\ ValidObservations)
        => /\ ZScoreDone => z_score = FNeg(SwappedZScore)
           /\ PValueDone =>
                 /\ p_value = p_value_of("Two-Tailed", SwappedZScore)
                 /\ significant =
                        FLess(p_value_of("Two-Tailed", SwappedZScore), significance)

\* a significant two-tailed result of valid observations, with a z-score below 0
C7_Witness ==
    /\ test_type = "Two-Tailed"
    /\ ValidObservations
    /\ PValueDone
    /\ z_score.k = "num" /\ z_score.m < 0
    /\ significant

\* C8: an evaluation whose control conversion rate is 0 completes without any
\* division by zero, and reports an uplift of 0.
C8_ZeroControlRateCompletes ==
    (analysis_type = "Test Evaluation" /\ conv_control = 0)
        => /\ error = "none"
           /\ pc # "evaluate" => uplift = Zero

\* C9: observations with conversions > traffic are rejected with InvalidParameter
\* before any rate, standard error or z-score is computed.
C9_ConversionsAboveTrafficRejected ==
    (/\ analysis_type = "Test Evaluation"
     /\ pc # "evaluate"
     /\ (conv_control > traffic_control \/ conv_variant > traffic_variant))
        => /\ error = "InvalidParameter"
           /\ NoEvalResults

\* C10: when se_diff is 0 the z-score is 0; and with a group at 100% conversion
\* the standard errors and the z-score are computed without a division error:
\* no exception, and for valid observations a finite z-score.
C10_ZeroSeDiffGivesZeroZ ==
    /\ ZScoreDone => (IsZero(se_diff) => z_score = Zero)
    /\ (conv_control = traffic_control \/ conv_variant = traffic_variant)
          => /\ pc \in {"standard_errors", "z_score", "p_value", "message"}
                   => error = "none"
             /\ (ZScoreDone /\ ValidObservations) => z_score.k = "num"

\* both groups at 100% conversion, the z-score computed
C10_Witness ==
    /\ ZScoreDone
    /\ conv_control = traffic_control
    /\ conv_variant = traffic_variant
    /\ IsZero(se_diff)
    /\ z_score = Zero

\* C11: for every properly bracketed input, the effect returned by calculate_mde
\* has achieved power >= the target power.
C11_ReturnedEffectMeetsTarget ==
    (MdeDone /\ MdeBracketed)
        => FLeq(power, actual_power_mde(sample_size, baseline_rate, significance, mde))

\* x, as a percentage, rounds to t tenths of a percent
RoundsToTenthPercent(x, t) ==
    FLeq(Dec(2 * t - 1, 2000), x) /\ FLess(x, Dec(2 * t + 1, 2000))

\* calculate_mde(sample_size=10000, baseline_rate=0.30, power=0.8,
\* significance_level=0.05) has returned
Scenario1Returned ==
    /\ mode = "Calculate from sample size"
    /\ sample_size = 10000
    /\ baseline_rate = FDiv(Dec(3000, 100), Hundred)
    /\ power = Dec(80, 100)
    /\ significance = Dec(5, 100)
    /\ MdeDone

\* C12 as stated: calculate_mde(10000, 0.30, 0.8, 0.05) returns an MDE that rounds
\* to 5.3% relative (nearest 0.1%).
C12_Scenario1RoundsTo53 == Scenario1Returned => RoundsToTenthPercent(mde, 53)

\* C12 amended: calculate_mde(10000, 0.30, 0.8, 0.05) returns an MDE that rounds
\* to 6.1% relative (nearest 0.1%).
C12_Scenario1RoundsTo61 == Scenario1Returned => RoundsToTenthPercent(mde, 61)

\* scenario 1 right after calculate_mde returned
C12_Witness == Scenario1Returned /\ pc = "user_mde" /\ mde.k = "num"

\* x rounds to the integer t when multiplied by scale
RoundsTo(x, t, scale) ==
    FLeq(Dec(2 * t - 1, 2 * scale), x) /\ FLess(x, Dec(2 * t + 1, 2 * scale))

\* control 1000/300, variant 1000/350, two-tailed at 95% confidence, evaluated
Scenario2Evaluated ==
    /\ traffic_control = 1000 /\ conv_control = 300
    /\ traffic_variant = 1000 /\ conv_variant = 350
    /\ test_type = "Two-Tailed"
    /\ confidence = FDiv(FInt(95), Hundred)
    /\ PValueDone

\* C13 as stated: scenario 2 yields z ~ 2.48, p ~ 0.013, significant = true and
\* uplift ~ 16.67%.
C13_Scenario2AsStated ==
    Scenario2Evaluated
        => /\ RoundsTo(z_score, 248, 100)
           /\ RoundsTo(p_value, 13, 1000)
           /\ significant
           /\ RoundsTo(uplift, 1667, 100)

\* C13 amended: scenario 2 yields z ~ 2.39, p ~ 0.017, significant = true and
\* uplift ~ 16.67%.
C13_Scenario2 ==
    Scenario2Evaluated
        => /\ RoundsTo(z_score, 239, 100)
           /\ RoundsTo(p_value, 17, 1000)
           /\ significant
           /\ RoundsTo(uplift, 1667, 100)

\* scenario 2 with its verdict computed and the page about to render it
C13_Witness == Scenario2Evaluated /\ pc = "message" /\ significant

\* calculate_mde has been entered
MdeEntered == analysis_type = "Pre-Test Analysis" /\ pc # "sample_size"

\* C14: for every input (also when the power function returns NaN) the MDE
\* loop runs at most 14 times and then exits; the bracket stays inside
\* [1e-4, 1.0], its final width is <= 1e-4, and the midpoint of the final bracket
\* is returned.
C14_MdeLoopTerminates ==
    MdeEntered
        => /\ mde_iterations <= 14
           /\ MdeLeft0 <= left /\ left < right /\ right <= MdeRight0
           /\ (pc = "mde_loop" /\ mde_iterations = 14) => ~(right - left > EffectTol)
           /\ MdeDone
                 => /\ right - left <= EffectTol
                    /\ mde = EffectOf((left + right) \div 2)
                    /\ FLeq(EffectOf(left), mde) /\ FLeq(mde, EffectOf(right))

\* calculate_mde returned after 14 passes although every power it computed at the
\* upper end of the bracket is NaN
C14_Witness ==
    /\ pc = "user_mde"
    /\ mde_iterations = 14
    /\ PowerAtEffect(MdeRight0).k = "nan"
    /\ mde.k = "num"

\* calculate_required_sample_size has been entered
SampleSizeEntered == pc = "n_loop" \/ SampleSizeDone

\* C15: for every input the sample-size loop runs at most 17 times and then
\* exits, with 100 <= left < right <= 10,000,000 throughout and
\* right - left <= 100 on exit; while the loop runs, (left + right) // 2 lies
\* strictly between left and right.
C15_SampleSizeLoopTerminates ==
    SampleSizeEntered
        => /\ n_iterations <= 17
           /\ SsLeft0 <= n_left /\ n_left < n_right /\ n_right <= SsRight0
           /\ (pc = "n_loop" /\ n_iterations = 17) => ~(n_right - n_left > SsTol)
           /\ (pc = "n_loop" /\ n_right - n_left > SsTol)
                 => /\ n_left < (n_left + n_right) \div 2
                    /\ (n_left + n_right) \div 2 < n_right
           /\ SampleSizeDone => n_right - n_left <= SsTol

\* calculate_required_sample_size returned after 17 passes, with both ends of the
\* bracket moved
C15_Witness ==
    /\ pc = "curve"
    /\ n_iterations = 17
    /\ SsLeft0 < n_left /\ n_right < SsRight0
    /\ required_sample_size = n_right

\* the sample-size solver's bracket bounds a crossing of the target power
SampleSizeBracketed ==
    FLess(PowerAtN(SsLeft0), power) /\ FLeq(power, PowerAtN(SsRight0))

\* the smallest n inside the final bracket whose achieved power reaches the target
NMin ==
    CHOOSE n \in (n_left + 1)..n_right :
        /\ FLeq(power, PowerAtN(n))
        /\ \A m \in (n_left + 1)..(n - 1) : FLess(PowerAtN(m), power)

\* C16: when power(100) < target <= power(10,000,000), the sample-size loop keeps
\* power(left) < target <= power(right), and the n it returns satisfies
\* n_min <= n < n_min + 100 for the smallest n_min above left that reaches the
\* target (the smallest of all when power is non-decreasing in n).
C16_SampleSizeInvariant ==
    (SampleSizeEntered /\ SampleSizeBracketed)
        => /\ FLess(PowerAtN(n_left), power)
           /\ FLeq(power, PowerAtN(n_right))
           /\ pc = "curve"
                 => /\ FLeq(power, PowerAtN(required_sample_size))
                    /\ NMin <= required_sample_size
                    /\ required_sample_size < NMin + SsTol

\* a bracketed search returned an n that is neither end of the initial bracket
C16_Witness ==
    /\ pc = "curve"
    /\ SampleSizeBracketed
    /\ SsLeft0 < n_left
    /\ required_sample_size < SsRight0
    /\ FLess(PowerAtN(n_left), power)

\* C17: in both calculator modes the per-variation sample size handed to
\* calculate_mde is >= 100.
C17_SampleSizeAtLeast100 == MdeEntered => sample_size >= MinSampleSize

\* the rounding of one subtraction from 1 in the p-value
PValueTol == Dec(1, 10000)

C19_VerdictAgrees ==
    PValueDone
        => /\ significant <=> FLess(critical_value, FAbs(z_score))
           /\ FLess(critical_value, FAbs(z_score)) <=> FLess(Dec(1, 2), observed_power)

\* a one-tailed evaluation declared significant whose |z| is below the two-tailed
\* critical value of the same confidence
C19_Witness ==
    /\ PValueDone
    /\ test_type = "One-Tailed"
    /\ significant
    /\ FLess(critical_value, FAbs(z_score))
    /\ FLess(FAbs(z_score), critical_value_of("Two-Tailed", significance))

====
